---- MODULE Spec2Model ----
(***************************************************************************)
(* Deadline-aware serverless scheduling: the live-path TaskQueue and       *)
(* Scheduler (Scheduler/queue.py, Scheduler/scheduler.py), the container   *)
(* pool and the batch engine (task_scheduler/optimized_simulator.py).      *)
(*                                                                         *)
(* Times are integers in ticks of 100 ms, so that the default cold start   *)
(* (cold_start_ms = 100) is one tick; Sec(n) is n seconds.  A Python       *)
(* attribute or dict key that is None / absent is a record field that is   *)
(* absent; an optional value is <<>> (None) or <<v>>.                      *)
(***************************************************************************)
EXTENDS Integers, Sequences, FiniteSets, TLC

VARIABLES
    \* ---- TaskQueue (Scheduler/queue.py)
    heap,            \* self._heap: the heapq list of (priority, counter, task)
    counter,         \* self._counter
    ret,             \* what the last enqueue / dequeue returned: <<>> (None) or <<task>>
    peeked,          \* what peek_all returned, if it was the last call: <<list>>
    \* ---- Scheduler (Scheduler/scheduler.py) and the performance log
    wall,            \* the wall clock, time.time()
    perf_log,        \* the rows log_performance has appended
    \* ---- the Flask server (Scheduler/middleware.py): request threads and runner
    req,             \* position of each request thread inside invoke_function
    runner,          \* the scheduler_runner thread: position and the task it runs
    submitted,       \* names of the tasks handed to Scheduler.add_task by /invoke
    \* ---- container pool called directly
    pool_log,        \* the _get_container_delay calls made so far, with results
    \* ---- OptimizedServerlessSimulator and main
    cfg,             \* the command-line configuration
    input,           \* config['workload'] as read from stdin
    workload,        \* self.workload
    warned,          \* number of truncation warnings printed
    pc,              \* position of the main thread
    i,               \* batch offset of simulate's for loop
    current_time,    \* the clock: simulate_batch's nonlocal current_time
    tasks,           \* the current batch of OptimizedTask objects, sorted
    fut,             \* per task of the batch: its future and its worker's locals
    snapshot,        \* as_completed: futures found finished when it was called
    waiter,          \* as_completed: futures finished since, in finishing order
    rows,            \* rows handed to the StreamingCSVWriter, in order
    stats,           \* self.stats
    trigger_stats,   \* self.trigger_stats
    cost_total,      \* self.cost_total
    container_cache, \* self.container_cache
    exit_code,       \* main's return value: <<>> while running
    first_run,       \* the outcome of an earlier run on the same input: <<>> if none
    sink,            \* the StreamingCSVWriter's file: "none", "open" or "closed"
    rows_written,    \* StreamingCSVWriter.rows_written
    flushed,         \* number of rows that have reached the output file
    raised,          \* the exception under way in the main thread: <<>> if none
    \* ---- ServerlessSimulator (task_scheduler/custom_simulator.py) on the same input
    c_pc,            \* position of ServerlessSimulator.simulate
    pending_tasks,   \* the DeadlineAwareScheduler simulate creates: its pending list
    popped,          \* what DeadlineAwareScheduler.get_next_task returned last: <<>> for None
    c_tasks,         \* tasks_by_arrival
    c_time,          \* simulate's current_time
    results,         \* self.results
    metrics          \* self.metrics

queueVars == <<heap, counter, ret, peeked>>
poolVars == <<pool_log>>
liveVars == <<wall, perf_log, req, runner, submitted>>
sinkVars == <<sink, rows_written, flushed>>
engineVars == <<cfg, input, workload, warned, pc, i, current_time, tasks, fut,
                snapshot, waiter, rows, stats, trigger_stats, cost_total,
                exit_code, first_run, sink, rows_written, flushed, raised>>
customVars == <<c_pc, pending_tasks, popped, c_tasks, c_time, results, metrics>>
vars == <<heap, counter, ret, peeked, wall, perf_log, req, runner, submitted, pool_log, cfg, input, workload, warned, pc, i,
          current_time, tasks, fut, snapshot, waiter, rows, stats,
          trigger_stats, cost_total, container_cache, exit_code, first_run,
          sink, rows_written, flushed, raised,
          c_pc, pending_tasks, popped, c_tasks, c_time, results, metrics>>

\* ---------------------------------------------------------------- bounds
MaxEnqueues == 5
MaxTasks == 2
MaxCalls == 3

\* ---------------------------------------------------------------- helpers
Sec(n) == 10 * n

Max(a, b) == IF a >= b THEN a ELSE b

Min(a, b) == IF a <= b THEN a ELSE b

None == <<>>

Some(v) == <<v>>

Range(s) == {s[k] : k \in 1..Len(s)}

Get(d, k, default) == IF k \in DOMAIN d THEN d[k] ELSE default

\* dict.get(k): None when the key is absent.
Lookup(d, k) == IF k \in DOMAIN d THEN Some(d[k]) ELSE None

\* d[k] = v on a dict.
Store(d, k, v) == [x \in DOMAIN d \cup {k} |-> IF x = k THEN v ELSE d[x]]

\* Attribute (or key) assignment: d with the entries of upd set.
With(d, upd) ==
    [x \in DOMAIN d \cup DOMAIN upd |-> IF x \in DOMAIN upd THEN upd[x] ELSE d[x]]

\* The entries of d under keys: what d.get(k) finds, a key that yields None
\* being left absent.
Present(d, keys) == [x \in DOMAIN d \cap keys |-> d[x]]

\* Python's truth value of an optional number: None and 0 are both false.
Truthy(opt) == opt # None /\ opt[1] # 0

\* ================================================================ TaskQueue
\* The tasks a client may submit: Task(name, script_path, deadline, est_runtime).
\* The name is the submission ordinal, so that tasks are told apart.
Deadlines == {5, 10}

Runtimes == {1, 2}

Task(name, deadline, est_runtime) ==
    [name |-> name, deadline |-> deadline, est_runtime |-> est_runtime]

_get_priority_swapped(task) == <<task.est_runtime, task.deadline>>

_get_priority(task) == <<task.deadline, task.est_runtime>>

\* Python's < on the heap items ((deadline, est_runtime), counter, task):
\* lexicographic.  The counter is unique per item, so the comparison never
\* reaches the task objects.
ItemLess(a, b) ==
    \/ a.pri[1] < b.pri[1]
    \/ a.pri[1] = b.pri[1] /\ a.pri[2] < b.pri[2]
    \/ a.pri = b.pri /\ a.cnt < b.cnt

\* heapq works on 0-based positions.
At(h, pos) == h[pos + 1]

Put(h, pos, item) == [h EXCEPT ![pos + 1] = item]

RECURSIVE _siftdown_loop(_, _, _, _)
_siftdown_loop(h, startpos, pos, newitem) ==
    IF pos > startpos
    THEN LET parentpos == (pos - 1) \div 2
             parent == At(h, parentpos)
         IN  IF ItemLess(newitem, parent)
             THEN _siftdown_loop(Put(h, pos, parent), startpos, parentpos, newitem)
             ELSE Put(h, pos, newitem)
    ELSE Put(h, pos, newitem)

_siftdown(h, startpos, pos) == _siftdown_loop(h, startpos, pos, At(h, pos))

RECURSIVE _siftup_loop(_, _, _, _)
_siftup_loop(h, startpos, pos, newitem) ==
    LET endpos == Len(h)
        childpos == 2 * pos + 1
    IN  IF childpos < endpos
        THEN LET rightpos == childpos + 1
                 c == IF rightpos < endpos
                         /\ ~ItemLess(At(h, childpos), At(h, rightpos))
                      THEN rightpos ELSE childpos
             IN  _siftup_loop(Put(h, pos, At(h, c)), startpos, c, newitem)
        ELSE _siftdown(Put(h, pos, newitem), startpos, pos)

_siftup(h, pos) == _siftup_loop(h, pos, pos, At(h, pos))

heappush(h, item) == _siftdown(Append(h, item), 0, Len(h))

\* heappop on a non-empty heap: <<the heap left, the item returned>>.
heappop(h) ==
    LET lastelt == h[Len(h)]
        rest == SubSeq(h, 1, Len(h) - 1)
    IN  IF rest # <<>>
        THEN <<_siftup(Put(rest, 0, lastelt), 0), rest[1]>>
        ELSE <<rest, lastelt>>

EnqueueKeepsCounter(deadline, est_runtime) ==
    /\ counter < MaxEnqueues
    /\ LET task == With(Task(counter, deadline, est_runtime),
                         [enqueue_time |-> wall])
           item == [pri |-> _get_priority(task), cnt |-> counter, task |-> task]
       IN  heap' = heappush(heap, item)
    /\ counter' = counter
    /\ ret' = None
    /\ peeked' = None
    /\ UNCHANGED <<poolVars, liveVars, customVars, engineVars, container_cache>>

\* TaskQueue.enqueue of a task stamped with the wall clock: what it does to the
\* queue.
TaskQueue_enqueue(deadline, est_runtime) ==
    /\ counter < MaxEnqueues
    /\ LET task == With(Task(counter, deadline, est_runtime),
                         [enqueue_time |-> wall])
           item == [pri |-> _get_priority(task), cnt |-> counter, task |-> task]
       IN  heap' = heappush(heap, item)
    /\ counter' = counter + 1
    /\ ret' = None
    /\ peeked' = None

\* Scheduler.add_task: the task is stamped with the wall clock and enqueued
\* (TaskQueue.enqueue).
Enqueue(deadline, est_runtime) ==
    /\ TaskQueue_enqueue(deadline, est_runtime)
    /\ UNCHANGED <<poolVars, liveVars, customVars, engineVars, container_cache>>

DequeueResetsCounter ==
    /\ IF heap # <<>>
       THEN /\ heap' = heappop(heap)[1]
            /\ ret' = Some(heappop(heap)[2].task)
            /\ counter' = counter
       ELSE /\ heap' = heap
            /\ ret' = None
            /\ counter' = 0
    /\ peeked' = None
    /\ UNCHANGED <<poolVars, liveVars, customVars, engineVars, container_cache>>

\* TaskQueue.dequeue: what it does to the queue.
TaskQueue_dequeue ==
    /\ IF heap # <<>>
       THEN /\ heap' = heappop(heap)[1]
            /\ ret' = Some(heappop(heap)[2].task)
       ELSE /\ heap' = heap
            /\ ret' = None
    /\ peeked' = None
    /\ counter' = counter

\* TaskQueue.dequeue (Scheduler.pop_next).
Dequeue ==
    /\ TaskQueue_dequeue
    /\ UNCHANGED <<poolVars, liveVars, customVars, engineVars, container_cache>>

\* log_performance: the row appended to performance_log.csv (Timestamp left
\* out); wait_time and exec_duration are None when a time they need is 0.
log_performance(task_name, enqueue_time, start_time, end_time, deadline, deadline_status) ==
    [TaskName |-> task_name,
     EnqueueTime |-> enqueue_time,
     StartTime |-> start_time,
     EndTime |-> end_time,
     WaitTime |-> IF enqueue_time # 0 THEN Some(start_time - enqueue_time) ELSE None,
     ExecDuration |-> IF start_time # 0 /\ end_time # 0
                      THEN Some(end_time - start_time) ELSE None,
     Deadline |-> deadline,
     DeadlineStatus |-> deadline_status]

\* ---- the server's threads
\* Request threads of the Flask server.
Threads == {1, 2}

\* scheduler_runner between two tasks.
RunnerIdle == [pc |-> "idle", task |-> None, status |-> "", start_time |-> 0]

\* Python's < on two heap items as _heapq applies it: "lt", "ge", or "err" when
\* priority and counter are both equal and the comparison reaches the Task
\* objects, which define no __lt__ (TypeError).
Compare(a, b) ==
    IF a.pri = b.pri /\ a.cnt = b.cnt THEN "err"
    ELSE IF ItemLess(a, b) THEN "lt" ELSE "ge"

Swap(h, p, q) == [h EXCEPT ![p + 1] = h[q + 1], ![q + 1] = h[p + 1]]

\* _heapq's siftdown, which swaps in place: <<the list left, no error>>.
RECURSIVE c_siftdown(_, _, _)
c_siftdown(h, startpos, pos) ==
    IF pos > startpos
    THEN LET parentpos == (pos - 1) \div 2
             cmp == Compare(At(h, pos), At(h, parentpos))
         IN  IF cmp = "err" THEN <<h, FALSE>>
             ELSE IF cmp = "lt" THEN c_siftdown(Swap(h, pos, parentpos), startpos, parentpos)
             ELSE <<h, TRUE>>
    ELSE <<h, TRUE>>

\* _heapq's siftup from position pos down to a leaf, then siftdown.
RECURSIVE c_siftup_loop(_, _, _)
c_siftup_loop(h, startpos, pos) ==
    LET endpos == Len(h)
        childpos == 2 * pos + 1
    IN  IF pos < endpos \div 2
        THEN LET cmp == IF childpos + 1 < endpos
                        THEN Compare(At(h, childpos), At(h, childpos + 1))
                        ELSE "lt"
                 c == IF cmp = "lt" THEN childpos ELSE childpos + 1
             IN  IF cmp = "err" THEN <<h, FALSE>>
                 ELSE c_siftup_loop(Swap(h, pos, c), startpos, c)
        ELSE c_siftdown(h, startpos, pos)

\* heapq.heappush with comparisons that can raise: <<the list left, no error>>.
\* The item is appended before it is sifted, so it stays in the list when the
\* sift raises.
c_heappush(h, item) == c_siftdown(Append(h, item), 0, Len(h))

\* heapq.heappop on a non-empty list with comparisons that can raise:
\* <<the list left, the item returned (None when it raised), no error>>.  The
\* first item has been replaced by the last one when the sift raises, and is
\* not returned.
c_heappop(h) ==
    LET lastelt == h[Len(h)]
        rest == SubSeq(h, 1, Len(h) - 1)
    IN  IF rest # <<>>
        THEN LET sifted == c_siftup_loop(Put(rest, 0, lastelt), 0, 0)
             IN  IF sifted[2] THEN <<sifted[1], Some(rest[1]), TRUE>>
                 ELSE <<sifted[1], None, FALSE>>
        ELSE <<rest, Some(lastelt), TRUE>>

\* invoke_function up to the heappush of TaskQueue.enqueue: the task is built,
\* stamped and pushed with the counter as it reads it.  A TypeError ends the
\* request before the counter is incremented.
InvokePush(th, name, deadline, est_runtime) ==
    /\ req[th] = "idle"
    /\ LET task == With(Task(name, deadline, est_runtime), [enqueue_time |-> wall])
           item == [pri |-> _get_priority(task), cnt |-> counter, task |-> task]
           pushed == c_heappush(heap, item)
       IN  /\ heap' = pushed[1]
           /\ req' = [req EXCEPT ![th] = IF pushed[2] THEN "pushed" ELSE "idle"]
    /\ submitted' = submitted \cup {name}
    /\ UNCHANGED <<counter, ret, peeked, wall, perf_log, runner, poolVars, customVars,
                   engineVars, container_cache>>

\* "self._counter += 1" of TaskQueue.enqueue, and the rest of invoke_function.
InvokeCount(th) ==
    /\ req[th] = "pushed"
    /\ counter' = counter + 1
    /\ req' = [req EXCEPT ![th] = "idle"]
    /\ UNCHANGED <<heap, ret, peeked, wall, perf_log, runner, submitted, poolVars,
                   customVars, engineVars, container_cache>>

\* scheduler_runner finds the queue non-empty and calls run_next, up to the
\* start of the script: the task is popped and its status computed.  An
\* exception of the pop ends the thread.  (On an empty queue the thread sleeps
\* and looks again.)
RunnerStart ==
    /\ runner.pc = "idle"
    /\ heap # <<>>
    /\ LET popped_item == c_heappop(heap)
       IN  /\ heap' = popped_item[1]
           /\ ret' = IF popped_item[3] THEN Some(popped_item[2][1].task) ELSE None
           /\ runner' =
                IF popped_item[3]
                THEN [pc |-> "running", task |-> Some(popped_item[2][1].task),
                      status |-> IF wall > popped_item[2][1].task.deadline
                                 THEN "missed" ELSE "on-time",
                      start_time |-> wall]
                ELSE [RunnerIdle EXCEPT !.pc = "dead"]
    /\ peeked' = None
    /\ UNCHANGED <<counter, wall, perf_log, req, submitted, poolVars, customVars,
                   engineVars, container_cache>>

\* run_next from the end of the script: the row is logged and the runner loops.
RunnerFinish(duration) ==
    /\ runner.pc = "running"
    /\ wall' = runner.start_time + duration
    /\ perf_log' = Append(perf_log,
           log_performance(runner.task[1].name, runner.task[1].enqueue_time,
                           runner.start_time, runner.start_time + duration,
                           runner.task[1].deadline, runner.status))
    /\ runner' = RunnerIdle
    /\ UNCHANGED <<queueVars, req, submitted, poolVars, customVars, engineVars,
                   container_cache>>

\* Scheduler.run_next, called when elapsed has passed on the wall clock since
\* the last operation, the task's script running for duration: the status is
\* computed from the clock read before the script is run.
RunNext(elapsed, duration) ==
    /\ IF heap # <<>>
       THEN LET next_task == heappop(heap)[2].task
                now == wall + elapsed
                missed == now > next_task.deadline
                status == IF missed THEN "missed" ELSE "on-time"
                start_time == now
                end_time == start_time + duration
            IN  /\ heap' = heappop(heap)[1]
                /\ ret' = Some(next_task)
                /\ wall' = end_time
                /\ perf_log' = Append(perf_log,
                      log_performance(next_task.name, next_task.enqueue_time,
                                      start_time, end_time, next_task.deadline,
                                      status))
       ELSE /\ heap' = heap
            /\ ret' = None
            /\ UNCHANGED <<wall, perf_log>>
    /\ peeked' = None
    /\ UNCHANGED <<counter, req, runner, submitted, poolVars, customVars, engineVars,
                   container_cache>>

\* TaskQueue.is_empty and TaskQueue.__len__.
is_empty == Len(heap) = 0

len == Len(heap)

SortedItemsAsStored(h) == h

\* sorted(self._heap): the items in increasing order of Python's tuple <.
RECURSIVE SortedItems(_)
SortedItems(h) ==
    IF h = <<>> THEN <<>>
    ELSE LET least == CHOOSE p \in 1..Len(h) :
                          \A q \in 1..Len(h) : p = q \/ ItemLess(h[p], h[q])
         IN  <<h[least]>> \o SortedItems(SubSeq(h, 1, least - 1)
                                          \o SubSeq(h, least + 1, Len(h)))

\* TaskQueue.peek_all: "[item[-1] for item in sorted(self._heap)]".
PeekAll ==
    /\ LET items == SortedItems(heap)
       IN  peeked' = Some([k \in 1..Len(items) |-> items[k].task])
    /\ ret' = None
    /\ UNCHANGED <<heap, counter, poolVars, liveVars, customVars, engineVars, container_cache>>

\* ================================================================ container pool
cold_start_dropped(c) == 0

\* self.cold_start_ms = cold_start_ms / 1000.0 (seconds), here in ticks.
cold_start(c) == c.cold_start_ms \div 100

\* The delay _get_container_delay returns once it has read container_info.
DelayAfterRead(c, container_info, at_time) ==
    IF ~Truthy(container_info)
    THEN cold_start(c)
    ELSE IF at_time - container_info[1] > Sec(c.reuse_ttl)
         THEN cold_start(c)
         ELSE 0

_get_container_delay_reuse_forced(c, cache, function_name, at_time) ==
    <<DelayAfterRead(c, Lookup(cache, function_name), at_time),
      Store(cache, function_name, at_time)>>

_get_container_delay_cold_only(c, cache, function_name, at_time) ==
    IF ~c.container_reuse
    THEN <<cold_start(c), cache>>
    ELSE LET delay == DelayAfterRead(c, Lookup(cache, function_name), at_time)
         IN  <<delay, IF delay = 0 THEN cache
                      ELSE Store(cache, function_name, at_time)>>

\* _get_container_delay run without interruption: <<delay, cache after>>.
_get_container_delay(c, cache, function_name, at_time) ==
    IF ~c.container_reuse
    THEN <<cold_start(c), cache>>
    ELSE <<DelayAfterRead(c, Lookup(cache, function_name), at_time),
           Store(cache, function_name, at_time)>>

\* A direct call of _get_container_delay on the simulator.
PoolCall(function_name, at_time) ==
    /\ Len(pool_log) < MaxCalls
    /\ LET r == _get_container_delay(cfg, container_cache, function_name, at_time)
       IN  /\ container_cache' = r[2]
           /\ pool_log' = Append(pool_log, [fn |-> function_name, t |-> at_time,
                                            delay |-> r[1]])
    /\ UNCHANGED <<queueVars, liveVars, customVars, engineVars>>

\* ================================================================ cost model
\* _compute_cost, in units of 1e-8 / 10240 dollars (exact in integers):
\* (memory_mb / 1024) * seconds * 0.00001667 + 0.0000002.
CostEnabled(execution_time) == 256 * execution_time * 1667 + 204800

_compute_cost_flag_ignored(c, execution_time) == CostEnabled(execution_time)

_compute_cost(c, execution_time) ==
    IF ~c.enable_cost_model THEN 0 ELSE CostEnabled(execution_time)

\* ================================================================ batch engine
\* OptimizedTask.__init__: the attributes set to None are absent.
OptimizedTask(task_data) ==
    With(Present(task_data, {"id", "arrival_time", "deadline", "function_name"}),
         [payload |-> Get(task_data, "payload", <<>>),
          metadata |-> Get(task_data, "metadata", <<>>),
          trigger_type |-> Get(Get(task_data, "metadata", <<>>), "trigger", "Unknown"),
          deadline_missed |-> FALSE])

\* task.function_name as a key of container_cache; the key None is written
\* "None" (no function of the workloads bears that name).
FunctionKey(task) == Get(task, "function_name", "None")

\* write_result flushes the file every FlushEvery rows.
FlushEvery == 100

\* StreamingCSVWriter.write_result (Timestamp, the wall clock, left out).
Row(task) ==
    With(IF "id" \in DOMAIN task
         THEN [TaskName |-> Get(task.payload, "name", task.id), TaskID |-> task.id]
         ELSE Present(task.payload, {"name"}),
    [TriggerType |-> task.trigger_type,
     EnqueueTime |-> task.enqueue_time,
     StartTime |-> task.start_time,
     EndTime |-> task.end_time,
     WaitTime |-> task.queue_time,
     ExecDuration |-> task.execution_time,
     Deadline |-> task.deadline,
     DeadlineStatus |-> task.deadline_status])

\* "tasks.sort(key=lambda t: t.arrival_time)" raises TypeError: a comparison
\* takes place (two tasks or more) and meets a None.
SortRaises(batch_tasks) ==
    /\ Len(batch_tasks) >= 2
    /\ \E k \in 1..Len(batch_tasks) : "arrival_time" \notin DOMAIN batch_tasks[k]

InRangeOffByOne(k, stop, step) == IF step > 0 THEN k + 1 < stop ELSE k > stop

\* k is in range(0, stop, step), step # 0, as far as the for loop has got.
InRange(k, stop, step) == IF step > 0 THEN k < stop ELSE k > stop

\* A future whose call raised.
Raised == [st |-> "finished", exception |-> "TypeError"]

\* list.sort(key = arrival_time): stable.
RECURSIVE InsertByArrival(_, _)
InsertByArrival(sorted, t) ==
    IF sorted = <<>> \/ sorted[Len(sorted)].arrival_time <= t.arrival_time
    THEN Append(sorted, t)
    ELSE Append(InsertByArrival(SubSeq(sorted, 1, Len(sorted) - 1), t),
                sorted[Len(sorted)])

RECURSIVE SortByArrival(_)
SortByArrival(s) ==
    IF s = <<>> THEN <<>>
    ELSE InsertByArrival(SortByArrival(SubSeq(s, 1, Len(s) - 1)), s[Len(s)])

\* __init__: "if self.max_tasks and len(self.workload) > self.max_tasks".
Truncates(max_tasks, wl) == Truthy(max_tasks) /\ Len(wl) > max_tasks[1]

InitWorkload(max_tasks, wl) ==
    IF Truncates(max_tasks, wl) THEN SubSeq(wl, 1, max_tasks[1]) ELSE wl

ZeroStats == [total_tasks |-> 0, missed_tasks |-> 0, on_time_tasks |-> 0]

\* The state main leaves after constructing the simulator on (c, wl).
EngineInit(c, wl) ==
    /\ cfg = c
    /\ input = wl
    /\ workload = InitWorkload(c.max_tasks, wl)
    /\ warned = IF Truncates(c.max_tasks, wl) THEN 1 ELSE 0
    /\ pc = "start"
    /\ i = 0
    /\ current_time = 0
    /\ tasks = <<>>
    /\ fut = <<>>
    /\ snapshot = {}
    /\ waiter = <<>>
    /\ rows = <<>>
    /\ stats = ZeroStats
    /\ trigger_stats = <<>>
    /\ cost_total = 0
    /\ container_cache = <<>>
    /\ exit_code = None
    /\ first_run = None
    /\ sink = "none"
    /\ rows_written = 0
    /\ flushed = 0
    /\ raised = None

\* ---------------------------------------------------------------- main thread
Total == Len(workload)

\* simulate up to its loop: validate_workload refuses an empty workload, simulate
\* returns None and main returns 0 without a summary; range() refuses a step of
\* 0 with ValueError, which main turns into 1.
SimulateStart ==
    /\ pc = "start"
    /\ IF Total = 0
       THEN pc' = "exited" /\ exit_code' = Some(0) /\ UNCHANGED <<sink, raised>>
       ELSE IF cfg.batch_size = 0
            THEN /\ pc' = "exited"
                 /\ exit_code' = Some(1)
                 /\ sink' = "closed"
                 /\ raised' = Some("ValueError")
            ELSE /\ pc' = "loop"
                 /\ exit_code' = exit_code
                 /\ sink' = "open"
                 /\ raised' = raised
    /\ i' = 0
    /\ current_time' = 0
    /\ UNCHANGED <<queueVars, poolVars, liveVars, customVars, cfg, input, workload, warned, tasks, fut,
                   snapshot, waiter, rows, stats, trigger_stats, cost_total,
                   container_cache, first_run, rows_written, flushed>>

\* One turn of simulate's for loop up to the submits of simulate_batch: the batch
\* is cut, converted, sorted, and every task handed to the executor.  A sort
\* that raises ends the run: main returns 1.
BatchStart ==
    /\ pc = "loop"
    /\ InRange(i, Total, cfg.batch_size)
    /\ LET batch_end == Min(i + cfg.batch_size, Total)
           batch_data == SubSeq(workload, i + 1, batch_end)
           batch_tasks == [k \in 1..Len(batch_data) |-> OptimizedTask(batch_data[k])]
       IN  IF SortRaises(batch_tasks)
           THEN /\ pc' = "exited"
                /\ exit_code' = Some(1)
                /\ sink' = "closed"
                /\ flushed' = rows_written
                /\ raised' = Some("TypeError")
                /\ UNCHANGED <<tasks, fut>>
           ELSE /\ tasks' = SortByArrival(batch_tasks)
                /\ fut' = [k \in 1..Len(batch_data) |-> [st |-> "queued"]]
                /\ pc' = "submitted"
                /\ exit_code' = exit_code
                /\ UNCHANGED <<sink, flushed, raised>>
    /\ snapshot' = {}
    /\ waiter' = <<>>
    /\ UNCHANGED <<queueVars, poolVars, liveVars, customVars, cfg, input, workload, warned, i,
                   current_time, rows, stats, trigger_stats, cost_total,
                   container_cache, first_run, rows_written>>

\* ---------------------------------------------------------------- workers
ClockStartIgnoresArrival(clock, arrival_time) == clock

\* execute_task: "start_time = max(current_time, arrival_time)".
ClockStart(clock, arrival_time) == Max(clock, arrival_time)

RunningUntilCacheRead == {k \in DOMAIN fut : fut[k].st = "started"}

Running == {k \in DOMAIN fut : fut[k].st \in {"started", "cached", "written"}}

\* A worker thread takes the next work item off the executor's queue and runs
\* execute_task up to "start_time = max(current_time, arrival_time)", where max
\* raises TypeError on an arrival_time of None and the future is finished with
\* that exception.
ExecStart(j) ==
    /\ pc \in {"submitted", "yielding", "raising"}
    /\ j \in DOMAIN fut
    /\ fut[j].st = "queued"
    /\ \A k \in 1..(j - 1) : fut[k].st # "queued"
    /\ Cardinality(Running) < cfg.concurrency
    /\ IF "arrival_time" \in DOMAIN tasks[j]
       THEN /\ fut' = [fut EXCEPT ![j] =
                        [st |-> "started",
                         start_time |-> ClockStart(current_time, tasks[j].arrival_time)]]
            /\ waiter' = waiter
       ELSE /\ fut' = [fut EXCEPT ![j] = Raised]
            /\ waiter' = IF pc = "yielding" THEN Append(waiter, j) ELSE waiter
    /\ UNCHANGED <<queueVars, poolVars, liveVars, customVars, cfg, input, workload, warned, pc, i,
                   current_time, tasks, snapshot, rows, stats,
                   trigger_stats, cost_total, container_cache, exit_code, first_run, sinkVars, raised>>

\* _get_container_delay, reuse on: "container_info = self.container_cache.get(..)".
ExecCacheGet(j) ==
    /\ j \in DOMAIN fut
    /\ fut[j].st = "started"
    /\ cfg.container_reuse
    /\ fut' = [fut EXCEPT ![j] =
                 [st |-> "cached", start_time |-> fut[j].start_time,
                  container_info |-> Lookup(container_cache, FunctionKey(tasks[j]))]]
    /\ UNCHANGED <<queueVars, poolVars, liveVars, customVars, cfg, input, workload, warned, pc, i,
                   current_time, tasks, snapshot, waiter, rows, stats,
                   trigger_stats, cost_total, container_cache, exit_code, first_run, sinkVars, raised>>

\* _get_container_delay, reuse on: the branch taken on container_info writes the
\* record and returns the delay.
ExecCacheSet(j) ==
    /\ j \in DOMAIN fut
    /\ fut[j].st = "cached"
    /\ container_cache' = Store(container_cache, FunctionKey(tasks[j]),
                                fut[j].start_time)
    /\ fut' = [fut EXCEPT ![j] =
                 [st |-> "written", start_time |-> fut[j].start_time,
                  cold_delay |-> DelayAfterRead(cfg, fut[j].container_info,
                                                fut[j].start_time)]]
    /\ UNCHANGED <<queueVars, poolVars, liveVars, customVars, cfg, input, workload, warned, pc, i,
                   current_time, tasks, snapshot, waiter, rows, stats,
                   trigger_stats, cost_total, exit_code, first_run, sinkVars, raised>>

\* _get_container_delay, reuse off: the fixed cold start, no shared access.
ExecNoReuse(j) ==
    /\ j \in DOMAIN fut
    /\ fut[j].st = "started"
    /\ ~cfg.container_reuse
    /\ fut' = [fut EXCEPT ![j] =
                 [st |-> "written", start_time |-> fut[j].start_time,
                  cold_delay |-> _get_container_delay(cfg, container_cache,
                                     FunctionKey(tasks[j]), fut[j].start_time)[1]]]
    /\ UNCHANGED <<queueVars, poolVars, liveVars, customVars, cfg, input, workload, warned, pc, i,
                   current_time, tasks, snapshot, waiter, rows, stats,
                   trigger_stats, cost_total, container_cache, exit_code, first_run, sinkVars, raised>>

DeadlineMissed(end_time, deadline) == end_time > deadline

ExecutionTime(payload) == Get(payload, "est_runtime", Sec(1))

\* execute_task from "start_time += cold_delay" on: the task with its simulation
\* fields written.
ExecutedWaitBeforeDelay(task, clock_start, cold_delay) ==
    LET start_time == clock_start + cold_delay
        execution_time == ExecutionTime(task.payload)
        end_time == start_time + execution_time
        deadline_missed == DeadlineMissed(end_time, task.deadline)
    IN  With(task,
             [enqueue_time |-> task.arrival_time,
              start_time |-> start_time,
              end_time |-> end_time,
              execution_time |-> execution_time,
              queue_time |-> clock_start - task.arrival_time,
              deadline_missed |-> deadline_missed,
              deadline_status |-> IF deadline_missed THEN "missed" ELSE "on-time"])

Executed(task, clock_start, cold_delay) ==
    LET start_time == clock_start + cold_delay
        execution_time == ExecutionTime(task.payload)
        end_time == start_time + execution_time
        deadline_missed == DeadlineMissed(end_time, task.deadline)
    IN  With(task,
             [enqueue_time |-> task.arrival_time,
              start_time |-> start_time,
              end_time |-> end_time,
              execution_time |-> execution_time,
              queue_time |-> start_time - task.arrival_time,
              deadline_missed |-> deadline_missed,
              deadline_status |-> IF deadline_missed THEN "missed" ELSE "on-time"])

\* The rest of execute_task; the future then holds (task, end_time, cost) and is
\* FINISHED, which as_completed's waiter (once installed) records in order.
ExecFinishWritesRow(j) ==
    /\ j \in DOMAIN fut
    /\ fut[j].st = "written"
    /\ IF "deadline" \in DOMAIN tasks[j]
       THEN LET done == Executed(tasks[j], fut[j].start_time, fut[j].cold_delay)
            IN  /\ tasks' = [tasks EXCEPT ![j] = done]
                /\ fut' = [fut EXCEPT ![j] =
                             [st |-> "finished", end_time |-> done.end_time,
                              cost |-> _compute_cost(cfg, done.execution_time)]]
                /\ rows' = Append(rows, Row(done))
                /\ rows_written' = rows_written + 1
       ELSE /\ tasks' = tasks
            /\ fut' = [fut EXCEPT ![j] = Raised]
            /\ UNCHANGED <<rows, rows_written>>
    /\ waiter' = IF pc = "yielding" THEN Append(waiter, j) ELSE waiter
    /\ UNCHANGED <<queueVars, poolVars, liveVars, customVars, cfg, input, workload, warned, pc, i,
                   current_time, snapshot, stats, trigger_stats, cost_total,
                   container_cache, exit_code, first_run, sink, flushed, raised>>

\* "end_time > task.deadline" raises TypeError on a deadline of None, before
\* any attribute of the task is written.
ExecFinish(j) ==
    /\ j \in DOMAIN fut
    /\ fut[j].st = "written"
    /\ IF "deadline" \in DOMAIN tasks[j]
       THEN LET done == Executed(tasks[j], fut[j].start_time, fut[j].cold_delay)
            IN  /\ tasks' = [tasks EXCEPT ![j] = done]
                /\ fut' = [fut EXCEPT ![j] =
                             [st |-> "finished", end_time |-> done.end_time,
                              cost |-> _compute_cost(cfg, done.execution_time)]]
       ELSE /\ tasks' = tasks
            /\ fut' = [fut EXCEPT ![j] = Raised]
    /\ waiter' = IF pc = "yielding" THEN Append(waiter, j) ELSE waiter
    /\ UNCHANGED <<queueVars, poolVars, liveVars, customVars, cfg, input, workload, warned, pc, i,
                   current_time, snapshot, rows, stats, trigger_stats, cost_total,
                   container_cache, exit_code, first_run, sinkVars, raised>>

\* ---------------------------------------------------------------- as_completed
\* as_completed is entered: the futures already FINISHED are collected in a set
\* (yielded in the set's iteration order, which is not the finishing order); a
\* waiter is installed on the others.
AsCompletedPendingOnly ==
    /\ pc = "submitted"
    /\ snapshot' = {}
    /\ waiter' = <<>>
    /\ pc' = "yielding"
    /\ UNCHANGED <<queueVars, poolVars, liveVars, customVars, cfg, input, workload, warned, i,
                   current_time, tasks, fut, rows, stats, trigger_stats,
                   cost_total, container_cache, exit_code, first_run, sinkVars, raised>>

AsCompleted ==
    /\ pc = "submitted"
    /\ snapshot' = {k \in DOMAIN fut : fut[k].st = "finished"}
    /\ waiter' = <<>>
    /\ pc' = "yielding"
    /\ UNCHANGED <<queueVars, poolVars, liveVars, customVars, cfg, input, workload, warned, i,
                   current_time, tasks, fut, rows, stats, trigger_stats,
                   cost_total, container_cache, exit_code, first_run, sinkVars, raised>>

StatsAfterBoth(st, task) ==
    [total_tasks |-> st.total_tasks + 1,
     missed_tasks |-> st.missed_tasks + (IF task.deadline_missed THEN 1 ELSE 0),
     on_time_tasks |-> st.on_time_tasks + 1]

StatsAfter(st, task) ==
    [total_tasks |-> st.total_tasks + 1,
     missed_tasks |-> st.missed_tasks + (IF task.deadline_missed THEN 1 ELSE 0),
     on_time_tasks |-> st.on_time_tasks + (IF task.deadline_missed THEN 0 ELSE 1)]

TriggerStatsAfterMissedOnly(ts, task) ==
    LET old == Get(ts, task.trigger_type, [count |-> 0, missed |-> 0])
    IN  IF task.deadline_missed
        THEN Store(ts, task.trigger_type,
                   [count |-> old.count + 1, missed |-> old.missed + 1])
        ELSE ts

TriggerStatsAfter(ts, task) ==
    LET old == Get(ts, task.trigger_type, [count |-> 0, missed |-> 0])
    IN  Store(ts, task.trigger_type,
              [count |-> old.count + 1,
               missed |-> old.missed + (IF task.deadline_missed THEN 1 ELSE 0)])

ProcessNeverFlushes(j) ==
    /\ IF "exception" \in DOMAIN fut[j]
       THEN /\ pc' = "raising"
            /\ raised' = Some(fut[j].exception)
            /\ UNCHANGED <<rows, stats, trigger_stats, cost_total, current_time,
                           rows_written, flushed>>
       ELSE /\ pc' = pc
            /\ raised' = raised
            /\ rows' = Append(rows, Row(tasks[j]))
            /\ rows_written' = rows_written + 1
            /\ flushed' = flushed
            /\ stats' = StatsAfter(stats, tasks[j])
            /\ trigger_stats' = TriggerStatsAfter(trigger_stats, tasks[j])
            /\ cost_total' = cost_total + fut[j].cost
            /\ current_time' = Max(current_time, fut[j].end_time)
    /\ fut' = [fut EXCEPT ![j] = [st |-> "yielded"]]

ProcessLastEndTime(j) ==
    /\ IF "exception" \in DOMAIN fut[j]
       THEN /\ pc' = "raising"
            /\ raised' = Some(fut[j].exception)
            /\ UNCHANGED <<rows, stats, trigger_stats, cost_total, current_time,
                           rows_written, flushed>>
       ELSE /\ pc' = pc
            /\ raised' = raised
            /\ rows' = Append(rows, Row(tasks[j]))
            /\ rows_written' = rows_written + 1
            /\ flushed' = IF (rows_written + 1) % FlushEvery = 0
                          THEN rows_written + 1 ELSE flushed
            /\ stats' = StatsAfter(stats, tasks[j])
            /\ trigger_stats' = TriggerStatsAfter(trigger_stats, tasks[j])
            /\ cost_total' = cost_total + fut[j].cost
            /\ current_time' = fut[j].end_time
    /\ fut' = [fut EXCEPT ![j] = [st |-> "yielded"]]

\* The body of the "for future in as_completed(futures)" loop on future j;
\* future.result() re-raises the exception of a call that raised, and the loop
\* is left.
Process(j) ==
    /\ IF "exception" \in DOMAIN fut[j]
       THEN /\ pc' = "raising"
            /\ raised' = Some(fut[j].exception)
            /\ UNCHANGED <<rows, stats, trigger_stats, cost_total, current_time,
                           rows_written, flushed>>
       ELSE /\ pc' = pc
            /\ raised' = raised
            /\ rows' = Append(rows, Row(tasks[j]))
            /\ rows_written' = rows_written + 1
            /\ flushed' = IF (rows_written + 1) % FlushEvery = 0
                          THEN rows_written + 1 ELSE flushed
            /\ stats' = StatsAfter(stats, tasks[j])
            /\ trigger_stats' = TriggerStatsAfter(trigger_stats, tasks[j])
            /\ cost_total' = cost_total + fut[j].cost
            /\ current_time' = Max(current_time, fut[j].end_time)
    /\ fut' = [fut EXCEPT ![j] = [st |-> "yielded"]]

\* as_completed yields a future of the set it found finished.
YieldSnapshot(j) ==
    /\ pc = "yielding"
    /\ j \in snapshot
    /\ Process(j)
    /\ snapshot' = snapshot \ {j}
    /\ UNCHANGED <<queueVars, poolVars, liveVars, customVars, cfg, input, workload, warned, i,
                   tasks, waiter, container_cache, exit_code, first_run, sink>>

\* ... then the futures its waiter recorded, in finishing order.
YieldWaiter ==
    /\ pc = "yielding"
    /\ snapshot = {}
    /\ waiter # <<>>
    /\ Process(Head(waiter))
    /\ waiter' = Tail(waiter)
    /\ UNCHANGED <<queueVars, poolVars, liveVars, customVars, cfg, input, workload, warned, i,
                   tasks, snapshot, container_cache, exit_code, first_run, sink>>

BatchEndSinkLeftOpen ==
    /\ pc \in {"yielding", "raising"}
    /\ \A k \in DOMAIN fut :
         fut[k].st \in (IF pc = "yielding" THEN {"yielded"}
                                           ELSE {"finished", "yielded"})
    /\ IF pc = "raising"
       THEN /\ pc' = "exited"
            /\ exit_code' = Some(1)
            /\ UNCHANGED <<sink, flushed>>
            /\ UNCHANGED <<i, tasks, fut>>
       ELSE /\ i' = i + cfg.batch_size
            /\ pc' = "loop"
            /\ tasks' = <<>>
            /\ fut' = <<>>
            /\ exit_code' = exit_code
            /\ UNCHANGED <<sink, flushed>>
    /\ UNCHANGED <<queueVars, poolVars, liveVars, customVars, cfg, input, workload, warned,
                   current_time, snapshot, waiter, rows, stats, trigger_stats,
                   cost_total, container_cache, first_run, rows_written, raised>>

\* The executor's with block is left, which waits for every submitted call.
\* Every future was yielded: simulate_batch returns the clock and the for loop
\* moves on.  An exception is under way: it leaves simulate (the sink is
\* closed) and main returns 1.
BatchEnd ==
    /\ pc \in {"yielding", "raising"}
    /\ \A k \in DOMAIN fut :
         fut[k].st \in (IF pc = "yielding" THEN {"yielded"}
                                           ELSE {"finished", "yielded"})
    /\ IF pc = "raising"
       THEN /\ pc' = "exited"
            /\ exit_code' = Some(1)
            /\ sink' = IF sink = "open" THEN "closed" ELSE sink
            /\ flushed' = rows_written
            /\ UNCHANGED <<i, tasks, fut>>
       ELSE /\ i' = i + cfg.batch_size
            /\ pc' = "loop"
            /\ tasks' = <<>>
            /\ fut' = <<>>
            /\ exit_code' = exit_code
            /\ UNCHANGED <<sink, flushed>>
    /\ UNCHANGED <<queueVars, poolVars, liveVars, customVars, cfg, input, workload, warned,
                   current_time, snapshot, waiter, rows, stats, trigger_stats,
                   cost_total, container_cache, first_run, rows_written, raised>>

\* The loop is over: the sink is closed, simulate returns self.stats, main prints
\* the summary and returns 0.
Finish ==
    /\ pc = "loop"
    /\ ~InRange(i, Total, cfg.batch_size)
    /\ pc' = "exited"
    /\ exit_code' = Some(0)
    /\ sink' = "closed"
    /\ flushed' = rows_written
    /\ UNCHANGED <<queueVars, poolVars, liveVars, customVars, cfg, input, workload, warned, i,
                   current_time, tasks, fut, snapshot, waiter, rows, stats,
                   trigger_stats, cost_total, container_cache, first_run, rows_written, raised>>

\* What a run leaves behind: the result rows and the aggregate metrics.
Outcome == [rows |-> rows, stats |-> stats, trigger_stats |-> trigger_stats,
            cost_total |-> cost_total, exit_code |-> exit_code]

\* The program is run a second time on the same input and configuration: main
\* constructs a fresh simulator.
RunAgain ==
    /\ pc = "exited"
    /\ first_run = None
    /\ first_run' = Some(Outcome)
    /\ workload' = InitWorkload(cfg.max_tasks, input)
    /\ warned' = IF Truncates(cfg.max_tasks, input) THEN 1 ELSE 0
    /\ pc' = "start"
    /\ i' = 0
    /\ current_time' = 0
    /\ tasks' = <<>>
    /\ fut' = <<>>
    /\ snapshot' = {}
    /\ waiter' = <<>>
    /\ rows' = <<>>
    /\ stats' = ZeroStats
    /\ trigger_stats' = <<>>
    /\ cost_total' = 0
    /\ container_cache' = <<>>
    /\ exit_code' = None
    /\ sink' = "none"
    /\ rows_written' = 0
    /\ flushed' = 0
    /\ raised' = None
    /\ UNCHANGED <<queueVars, poolVars, liveVars, customVars, cfg, input>>

\* KeyboardInterrupt is raised in the main thread while it is in simulate: it
\* leaves the as_completed loop, if it was there, and the with blocks of the
\* executor and of the sink, and main's handler returns 1.
Interrupt ==
    /\ pc \in {"start", "loop", "submitted", "yielding"}
    /\ pc' = "raising"
    /\ raised' = Some("KeyboardInterrupt")
    /\ UNCHANGED <<queueVars, poolVars, liveVars, customVars, cfg, input, workload, warned, i,
                   current_time, tasks, fut, snapshot, waiter, rows, stats,
                   trigger_stats, cost_total, container_cache, exit_code,
                   first_run, sinkVars>>

\* simulate() is called again on the same simulator instance once it has
\* returned: current_time is a local of simulate (line 333) and the CSV file is
\* opened anew with mode 'w'; stats, trigger_stats, cost_total and
\* container_cache are attributes set in __init__ only (lines 165-170).
SimulateAgain ==
    /\ pc = "exited"
    /\ exit_code = Some(0)
    /\ first_run = None
    /\ first_run' = Some(Outcome)
    /\ pc' = "start"
    /\ i' = 0
    /\ current_time' = 0
    /\ tasks' = <<>>
    /\ fut' = <<>>
    /\ snapshot' = {}
    /\ waiter' = <<>>
    /\ rows' = <<>>
    /\ exit_code' = None
    /\ sink' = "none"
    /\ rows_written' = 0
    /\ flushed' = 0
    /\ raised' = None
    /\ UNCHANGED <<queueVars, poolVars, liveVars, customVars, cfg, input, workload, warned,
                   stats, trigger_stats, cost_total, container_cache>>

\* The program is run a second time on the same input with another
\* --batch-size, the rest of the configuration unchanged.
RunWithBatchSize(batch_size) ==
    /\ pc = "exited"
    /\ first_run = None
    /\ batch_size # cfg.batch_size
    /\ first_run' = Some(Outcome)
    /\ cfg' = [cfg EXCEPT !.batch_size = batch_size]
    /\ workload' = InitWorkload(cfg.max_tasks, input)
    /\ warned' = IF Truncates(cfg.max_tasks, input) THEN 1 ELSE 0
    /\ pc' = "start"
    /\ i' = 0
    /\ current_time' = 0
    /\ tasks' = <<>>
    /\ fut' = <<>>
    /\ snapshot' = {}
    /\ waiter' = <<>>
    /\ rows' = <<>>
    /\ stats' = ZeroStats
    /\ trigger_stats' = <<>>
    /\ cost_total' = 0
    /\ container_cache' = <<>>
    /\ exit_code' = None
    /\ sink' = "none"
    /\ rows_written' = 0
    /\ flushed' = 0
    /\ raised' = None
    /\ UNCHANGED <<queueVars, poolVars, liveVars, customVars, input>>

\* ================================================================ ServerlessSimulator
ZeroMetrics ==
    [total_tasks |-> 0, on_time_tasks |-> 0, missed_tasks |-> 0,
     total_execution_time |-> 0, total_queue_time |-> 0]

\* ServerlessSimulator.__init__ on the same config.
CustomInit ==
    /\ c_pc = "new"
    /\ pending_tasks = <<>>
    /\ popped = None
    /\ c_tasks = <<>>
    /\ c_time = 0
    /\ results = <<>>
    /\ metrics = ZeroMetrics

\* custom_simulator.Task built from one workload record.
CustomTask(task_def) ==
    [id |-> task_def.id,
     arrival_time |-> task_def.arrival_time,
     deadline |-> task_def.deadline,
     payload |-> Get(task_def, "payload", <<>>),
     function_name |-> task_def.function_name]

\* simulate up to its loop: a DeadlineAwareScheduler is created (and no task is
\* ever added to it), the workload is parsed and sorted by arrival time.
CustomParse ==
    /\ c_pc = "new"
    /\ pending_tasks' = <<>>
    /\ c_tasks' = SortByArrival([k \in 1..Len(input) |-> CustomTask(input[k])])
    /\ c_time' = 0
    /\ c_pc' = "loop"
    /\ UNCHANGED <<queueVars, poolVars, liveVars, engineVars, container_cache, popped,
                   results, metrics>>

\* One turn of "for task in tasks_by_arrival".
CustomStep ==
    /\ c_pc = "loop"
    /\ Len(results) < Len(c_tasks)
    /\ LET task == c_tasks[Len(results) + 1]
           start_time == Max(c_time, task.arrival_time)
           execution_time == Get(task.payload, "est_runtime", Sec(1))
           end_time == start_time + execution_time
           queue_time == start_time - task.arrival_time
           deadline_missed == end_time > task.deadline
       IN  /\ results' = Append(results,
                [id |-> task.id, arrival_time |-> task.arrival_time,
                 deadline |-> task.deadline, payload |-> task.payload,
                 function_name |-> task.function_name,
                 enqueue_time |-> task.arrival_time, start_time |-> start_time,
                 end_time |-> end_time, execution_time |-> execution_time,
                 queue_time |-> queue_time,
                 deadline_status |-> IF deadline_missed THEN "missed" ELSE "on-time"])
           /\ metrics' =
                [total_tasks |-> metrics.total_tasks + 1,
                 total_execution_time |-> metrics.total_execution_time + execution_time,
                 total_queue_time |-> metrics.total_queue_time + queue_time,
                 missed_tasks |-> metrics.missed_tasks + (IF deadline_missed THEN 1 ELSE 0),
                 on_time_tasks |-> metrics.on_time_tasks + (IF deadline_missed THEN 0 ELSE 1)]
           /\ c_time' = end_time
    /\ UNCHANGED <<queueVars, poolVars, liveVars, engineVars, container_cache, c_pc,
                   pending_tasks, popped, c_tasks>>

\* The loop is over: simulate returns self.results.
CustomReturn ==
    /\ c_pc = "loop"
    /\ Len(results) = Len(c_tasks)
    /\ c_pc' = "done"
    /\ UNCHANGED <<queueVars, poolVars, liveVars, engineVars, container_cache,
                   pending_tasks, popped, c_tasks, c_time, results, metrics>>

\* ================================================================ DeadlineAwareScheduler
PendingKeyDeadlineOnly(t) == <<t.deadline, 0>>

\* The sort key of add_task: (t.deadline, t.payload.get('est_runtime', 0)).
PendingKey(t) == <<t.deadline, Get(t.payload, "est_runtime", 0)>>

\* Python's <= on two keys.
KeyLeq(a, b) == a[1] < b[1] \/ (a[1] = b[1] /\ a[2] <= b[2])

\* list.sort(key = PendingKey): stable.
RECURSIVE InsertByKey(_, _)
InsertByKey(sorted, t) ==
    IF sorted = <<>> \/ KeyLeq(PendingKey(sorted[Len(sorted)]), PendingKey(t))
    THEN Append(sorted, t)
    ELSE Append(InsertByKey(SubSeq(sorted, 1, Len(sorted) - 1), t),
                sorted[Len(sorted)])

RECURSIVE SortByKey(_)
SortByKey(s) ==
    IF s = <<>> THEN <<>>
    ELSE InsertByKey(SortByKey(SubSeq(s, 1, Len(s) - 1)), s[Len(s)])

\* DeadlineAwareScheduler.add_task: the pending list it leaves.
add_task(pending, task) == SortByKey(Append(pending, task))

\* DeadlineAwareScheduler.get_next_task: the pending list it leaves and what
\* it returns.
get_next_task(pending) ==
    IF pending # <<>> THEN <<Tail(pending), Some(Head(pending))>>
    ELSE <<pending, None>>

\* The same task added to a TaskQueue and to a DeadlineAwareScheduler.
AddBoth(deadline, est_runtime) ==
    /\ TaskQueue_enqueue(deadline, est_runtime)
    /\ pending_tasks' =
         add_task(pending_tasks,
                  CustomTask([id |-> counter, arrival_time |-> 0, deadline |-> deadline,
                              payload |-> [est_runtime |-> est_runtime],
                              function_name |-> "f"]))
    /\ popped' = None
    /\ UNCHANGED <<poolVars, liveVars, engineVars, container_cache,
                   c_pc, c_tasks, c_time, results, metrics>>

\* The next task removed from both.
RemoveBoth ==
    /\ TaskQueue_dequeue
    /\ pending_tasks' = get_next_task(pending_tasks)[1]
    /\ popped' = get_next_task(pending_tasks)[2]
    /\ UNCHANGED <<poolVars, liveVars, engineVars, container_cache,
                   c_pc, c_tasks, c_time, results, metrics>>

\* ================================================================ BaselineFCFSSimulator
\* "sorted(self.workload, key=lambda t: t.get('arrival_time', 0))".
BaselineSorted(wl) ==
    SortByArrival([k \in 1..Len(wl) |->
                     With(wl[k], [arrival_time |-> Get(wl[k], "arrival_time", 0)])])

BaselineTurnNoWait(task_def, clock) ==
    LET arrival_time == Get(task_def, "arrival_time", 0)
        execution_time == Get(Get(task_def, "payload", <<>>), "est_runtime", Sec(1))
        end_time == arrival_time + execution_time
    IN  [execution_time |-> execution_time,
         queue_time |-> 0,
         deadline_missed |-> end_time > Get(task_def, "deadline", 0),
         end_time |-> end_time]

\* One turn of "for task_def in tasks" at current_time = clock: the result
\* appended, and end_time, which becomes current_time.
BaselineTurn(task_def, clock) ==
    LET arrival_time == Get(task_def, "arrival_time", 0)
        start_time == Max(clock, arrival_time)
        execution_time == Get(Get(task_def, "payload", <<>>), "est_runtime", Sec(1))
        end_time == start_time + execution_time
    IN  [execution_time |-> execution_time,
         queue_time |-> start_time - arrival_time,
         deadline_missed |-> end_time > Get(task_def, "deadline", 0),
         end_time |-> end_time]

RECURSIVE BaselineLoop(_, _, _)
BaselineLoop(todo, clock, done) ==
    IF todo = <<>> THEN done
    ELSE LET turn == BaselineTurn(Head(todo), clock)
         IN  BaselineLoop(Tail(todo), turn.end_time,
                          Append(done, [execution_time |-> turn.execution_time,
                                        queue_time |-> turn.queue_time,
                                        deadline_missed |-> turn.deadline_missed]))

\* BaselineFCFSSimulator.simulate: the list of results it returns.
BaselineSimulate(wl) == BaselineLoop(BaselineSorted(wl), 0, <<>>)

\* ================================================================ specifications
DefaultCfg ==
    [max_tasks |-> None, batch_size |-> 1000, concurrency |-> 1,
     cold_start_ms |-> 100, container_reuse |-> TRUE, reuse_ttl |-> 60,
     enable_cost_model |-> TRUE]

\* The workloads of at most MaxTasks records over a set of record shapes; a
\* record's id is its position in the input.
Workloads(shapes) ==
    UNION {{[k \in 1..n |-> With(w[k], [id |-> k])] : w \in [1..n -> shapes]}
           : n \in 0..MaxTasks}

\* A new Scheduler with its empty TaskQueue, at some moment of the wall clock,
\* nothing logged yet.
QueueInit ==
    /\ heap = <<>>
    /\ counter = 0
    /\ ret = None
    /\ peeked = None
    /\ wall = 1
    /\ perf_log = <<>>
    /\ req = [th \in Threads |-> "idle"]
    /\ runner = RunnerIdle
    /\ submitted = {}

PoolInit == pool_log = <<>>

\* ---- the batch engine over varied workloads
BatchShapes ==
    [arrival_time : {0, Sec(1)}, deadline : {Sec(5), Sec(10)},
     function_name : {"f"}, payload : {<<>>, [est_runtime |-> Sec(3)]}]

BatchCfgs ==
    {[DefaultCfg EXCEPT !.batch_size = b, !.concurrency = c, !.container_reuse = r]
       : b \in {1, 2}, c \in {1, 2}, r \in BOOLEAN}

Init ==
    /\ QueueInit
    /\ PoolInit
    /\ CustomInit
    /\ \E c \in BatchCfgs, wl \in Workloads(BatchShapes) : EngineInit(c, wl)

Next ==
    \/ SimulateStart
    \/ BatchStart
    \/ \E j \in DOMAIN fut : ExecStart(j)
    \/ \E j \in DOMAIN fut : ExecCacheGet(j)
    \/ \E j \in DOMAIN fut : ExecCacheSet(j)
    \/ \E j \in DOMAIN fut : ExecNoReuse(j)
    \/ \E j \in DOMAIN fut : ExecFinish(j)
    \/ AsCompleted
    \/ \E j \in DOMAIN fut : YieldSnapshot(j)
    \/ YieldWaiter
    \/ BatchEnd
    \/ Finish

Spec == Init /\ [][Next]_vars

\* ---- the TaskQueue under any sequence of enqueue and dequeue calls
InitQueue ==
    /\ QueueInit
    /\ PoolInit
    /\ CustomInit
    /\ EngineInit(DefaultCfg, <<>>)

NextQueue ==
    \/ \E d \in Deadlines, r \in Runtimes : Enqueue(d, r)
    \/ Dequeue
    \/ PeekAll

SpecQueue == InitQueue /\ [][NextQueue]_vars

\* ---- the live path: tasks are submitted to a Scheduler and run one by one
MaxLive == 3

Elapsed == {0, 2}

Durations == {1, 4}

Submit(deadline, est_runtime) == counter < MaxLive /\ Enqueue(deadline, est_runtime)

NextLive ==
    \/ \E d \in Deadlines, r \in Runtimes : Submit(d, r)
    \/ \E el \in Elapsed, du \in Durations : RunNext(el, du)

SpecLive == InitQueue /\ [][NextLive]_vars

\* ---- the server: /invoke requests on two threads beside the runner thread
MaxInvokes == 3

NextServer ==
    \/ \E th \in Threads, d \in Deadlines, r \in Runtimes :
         /\ Cardinality(submitted) < MaxInvokes
         /\ InvokePush(th, Cardinality(submitted), d, r)
    \/ \E th \in Threads : InvokeCount(th)
    \/ RunnerStart
    \/ RunnerFinish(4)

SpecServer == InitQueue /\ [][NextServer]_vars

\* Requests under way complete, and the runner thread is scheduled and its
\* scripts terminate.
SpecServerFair ==
    /\ SpecServer
    /\ \A th \in Threads : WF_vars(InvokeCount(th))
    /\ WF_vars(RunnerStart)
    /\ WF_vars(RunnerFinish(4))

\* ---- the container pool under any sequence of direct calls
PoolTimes == {0, Sec(30), Sec(90), Sec(200)}

PoolFunctions == {"f", "g"}

InitPool ==
    /\ QueueInit
    /\ PoolInit
    /\ CustomInit
    /\ \E r \in BOOLEAN :
         EngineInit([DefaultCfg EXCEPT !.container_reuse = r], <<>>)

NextPool == \E fn \in PoolFunctions, t \in PoolTimes : PoolCall(fn, t)

SpecPool == InitPool /\ [][NextPool]_vars

\* ---- the program run twice on the same input and configuration
TwiceShapes ==
    [arrival_time : {0, Sec(1)}, deadline : {Sec(5)},
     function_name : {"f"}, payload : {[est_runtime |-> Sec(3)]}]

TwiceCfgs ==
    {[DefaultCfg EXCEPT !.batch_size = b, !.concurrency = c, !.container_reuse = r]
       : b \in {1, 2}, c \in {1, 2}, r \in BOOLEAN}

InitTwice ==
    /\ QueueInit
    /\ PoolInit
    /\ CustomInit
    /\ \E c \in TwiceCfgs, wl \in Workloads(TwiceShapes) : EngineInit(c, wl)

NextTwice == Next \/ RunAgain

SpecTwice == InitTwice /\ [][NextTwice]_vars

\* ---- main over the configuration surface (max_tasks, cost model)
MainShapes ==
    [arrival_time : {0, Sec(1)}, deadline : {Sec(5)},
     function_name : {"f"}, payload : {<<>>, [est_runtime |-> Sec(3)]}]

MaxTasksOptions == {None} \cup {Some(k) : k \in 0..MaxTasks}

MainCfgs ==
    {[DefaultCfg EXCEPT !.max_tasks = m, !.batch_size = b, !.concurrency = c,
                        !.container_reuse = r, !.enable_cost_model = e]
       : m \in MaxTasksOptions, b \in {1, 2}, c \in {1, 2}, r \in BOOLEAN,
         e \in BOOLEAN}

InitMain ==
    /\ QueueInit
    /\ PoolInit
    /\ CustomInit
    /\ \E c \in MainCfgs, wl \in Workloads(MainShapes) : EngineInit(c, wl)

SpecMain == InitMain /\ [][Next]_vars

\* ---- the batch engine over records that carry metadata.memory_mb
CostShapes ==
    [arrival_time : {0}, deadline : {Sec(5)}, function_name : {"f"},
     payload : {<<>>, [est_runtime |-> Sec(3)]},
     metadata : {<<>>, [memory_mb |-> 128], [memory_mb |-> 512]}]

InitCost ==
    /\ QueueInit
    /\ PoolInit
    /\ CustomInit
    /\ \E c \in BatchCfgs, wl \in Workloads(CostShapes) : EngineInit(c, wl)

SpecCost == InitCost /\ [][Next]_vars

\* ---- the batch engine under the default configuration, among others
ScenarioShapes ==
    [arrival_time : {0}, deadline : {Sec(2), Sec(10)}, function_name : {"f"},
     payload : {<<>>, [est_runtime |-> Sec(5)]}]

ScenarioCfgs == {DefaultCfg} \cup BatchCfgs

InitScenario ==
    /\ QueueInit
    /\ PoolInit
    /\ CustomInit
    /\ \E c \in ScenarioCfgs, wl \in Workloads(ScenarioShapes) : EngineInit(c, wl)

SpecScenario == InitScenario /\ [][Next]_vars

\* ---- the batch engine over records that may lack a field
RecordShapes ==
    [arrival_time : {0, Sec(1)}, deadline : {Sec(5)}, function_name : {"f"},
     payload : {<<>>}]

\* The fields OptimizedTask reads without a default.
RequiredFields == {"id", "function_name", "arrival_time", "deadline"}

\* A record lacks none or one of them.
MissingOptions == {{}} \cup {{f} : f \in RequiredFields}

Without(d, keys) == [x \in DOMAIN d \ keys |-> d[x]]

InitRecords ==
    /\ QueueInit
    /\ PoolInit
    /\ CustomInit
    /\ \E c \in BatchCfgs, wl \in Workloads(RecordShapes) :
         \E missing \in [DOMAIN wl -> MissingOptions] :
            EngineInit(c, [k \in DOMAIN wl |-> Without(wl[k], missing[k])])

SpecRecords == InitRecords /\ [][Next]_vars

\* ---- main over batch sizes and reuse ttls of either sign
ConfigCfgs ==
    {[DefaultCfg EXCEPT !.batch_size = b, !.reuse_ttl = t, !.concurrency = c,
                        !.container_reuse = r]
       : b \in {-1, 0, 1, 2}, t \in {-1, 60}, c \in {1, 2}, r \in BOOLEAN}

InitConfig ==
    /\ QueueInit
    /\ PoolInit
    /\ CustomInit
    /\ \E c \in ConfigCfgs, wl \in Workloads(MainShapes) \ {<<>>} : EngineInit(c, wl)

SpecConfig == InitConfig /\ [][Next]_vars

\* ---- the program run on the same input under two batch sizes
BatchSizes == {1, 2}

SizesShapes ==
    [arrival_time : {0, Sec(20)}, deadline : {Sec(15), Sec(30)},
     function_name : {"f"}, payload : {<<>>}]

\* Workloads, in either order, whose records arrive far enough apart for no
\* task to arrive before the one that arrived before it has ended.
SpacedWorkloads ==
    {wl \in Workloads(SizesShapes) :
        \A j, k \in DOMAIN wl : j # k => wl[j].arrival_time # wl[k].arrival_time}

InitSizes ==
    /\ QueueInit
    /\ PoolInit
    /\ CustomInit
    /\ \E c \in TwiceCfgs, wl \in SpacedWorkloads : EngineInit(c, wl)

NextSizes == Next \/ \E b \in BatchSizes : RunWithBatchSize(b)

SpecSizes == InitSizes /\ [][NextSizes]_vars

\* ---- both simulators run on the same workload
NextCustom == CustomParse \/ CustomStep \/ CustomReturn

NextCompare == Next \/ NextCustom

SpecCompare == Init /\ [][NextCompare]_vars

\* ---- both simulators on an arrival-sorted workload, the engine with one
\* worker and no cold-start delay
SortedWorkloads ==
    {wl \in Workloads(BatchShapes) :
        \A k \in 1..(Len(wl) - 1) : wl[k].arrival_time <= wl[k + 1].arrival_time}

SequentialCfgs ==
    {[DefaultCfg EXCEPT !.cold_start_ms = 0, !.batch_size = b, !.container_reuse = r]
       : b \in {1, 2, 1000}, r \in BOOLEAN}

InitSequential ==
    /\ QueueInit
    /\ PoolInit
    /\ CustomInit
    /\ \E c \in SequentialCfgs, wl \in SortedWorkloads : EngineInit(c, wl)

SpecSequential == InitSequential /\ [][NextCompare]_vars

\* ---- a TaskQueue and a DeadlineAwareScheduler given the same operations
NextBoth ==
    \/ \E d \in Deadlines, r \in Runtimes : AddBoth(d, r)
    \/ RemoveBoth

SpecBoth == InitQueue /\ [][NextBoth]_vars

\* ---- ServerlessSimulator.simulate alone
InitCustom ==
    /\ QueueInit
    /\ PoolInit
    /\ CustomInit
    /\ \E wl \in Workloads(BatchShapes) : EngineInit(DefaultCfg, wl)

SpecCustom == InitCustom /\ [][NextCustom]_vars

\* ================================================================ claims

\* ---------------------------------------------------------------- C1
\* The key the queue is specified to order by, read off the task itself.
KeyLess(a, b) ==
    \/ a.task.deadline < b.task.deadline
    \/ a.task.deadline = b.task.deadline /\ a.task.est_runtime < b.task.est_runtime
    \/ /\ a.task.deadline = b.task.deadline
       /\ a.task.est_runtime = b.task.est_runtime
       /\ a.cnt < b.cnt

LeastItem(h) == CHOOSE x \in Range(h) : \A y \in Range(h) : x = y \/ KeyLess(x, y)

\* C1: every dequeue on a non-empty queue returns the queued task with the least
\* (deadline, est_runtime, insertion number) and removes exactly that item; and
\* when two dequeues follow each other, the second task's (deadline,
\* est_runtime) is not smaller than the first's, equal keys coming out in
\* insertion order.
C1_DequeueLeast ==
    [][Len(heap') < Len(heap) =>
         /\ ret' = Some(LeastItem(heap).task)
         /\ Range(heap') = Range(heap) \ {LeastItem(heap)}
         /\ Len(heap') = Len(heap) - 1
         /\ ret # None =>
              \/ ret[1].deadline < ret'[1].deadline
              \/ /\ ret[1].deadline = ret'[1].deadline
                 /\ ret[1].est_runtime < ret'[1].est_runtime
              \/ /\ ret[1].deadline = ret'[1].deadline
                 /\ ret[1].est_runtime = ret'[1].est_runtime
                 /\ ret[1].name < ret'[1].name]_vars

\* A dequeue returned a task while a later-inserted task of the same (deadline,
\* est_runtime), an earlier-inserted task of a larger key and a task of a
\* smaller runtime but later deadline were queued.
C1_Witness ==
    /\ ret # None
    /\ \E x \in Range(heap) :
         /\ x.task.deadline = ret[1].deadline
         /\ x.task.est_runtime = ret[1].est_runtime
         /\ x.cnt > ret[1].name
    /\ \E x \in Range(heap) :
         /\ x.task.deadline > ret[1].deadline
         /\ x.task.est_runtime < ret[1].est_runtime
         /\ x.cnt < ret[1].name

\* ---------------------------------------------------------------- C2
\* Record a comes before record b in the arrival-time sort of the workload
\* (ties in workload order); records are named by their position.
Precedes(a, b) ==
    \/ workload[a].arrival_time < workload[b].arrival_time
    \/ workload[a].arrival_time = workload[b].arrival_time /\ a < b

\* C2: taking the processed tasks in arrival-sorted order, a task never starts
\* before the end of a task ordered before it (no start_time comes from a stale
\* clock, no two execution intervals overlap).
C2_SequentialClock ==
    \A x, y \in 1..Len(rows) :
        Precedes(rows[x].TaskID, rows[y].TaskID)
            => rows[y].StartTime >= rows[x].EndTime

\* ---------------------------------------------------------------- C3
\* C3: a second run on the same workload and configuration ends with the same
\* result rows, in the same order, and the same aggregate metrics as the first.
C3_Deterministic ==
    (first_run # None /\ pc = "exited") => Outcome = first_run[1]

\* ---------------------------------------------------------------- C4
Finished == {k \in DOMAIN fut : fut[k].st \in {"finished", "yielded"}}

CountRows(status) == Cardinality({x \in 1..Len(rows) : rows[x].DeadlineStatus = status})

\* C4: every processed task is "missed" exactly when end_time > deadline and
\* "on-time" otherwise; task.deadline_missed, task.deadline_status and the
\* missed / on-time counters agree, each row counted once.
C4_DeadlineStatus ==
    /\ \A k \in Finished :
         /\ tasks[k].deadline_missed <=> (tasks[k].end_time > tasks[k].deadline)
         /\ tasks[k].deadline_status =
              (IF tasks[k].end_time > tasks[k].deadline THEN "missed" ELSE "on-time")
    /\ \A x \in 1..Len(rows) :
         rows[x].DeadlineStatus =
            (IF rows[x].EndTime > rows[x].Deadline THEN "missed" ELSE "on-time")
    /\ stats.missed_tasks = CountRows("missed")
    /\ stats.on_time_tasks = CountRows("on-time")
    /\ stats.total_tasks = Len(rows)
    /\ stats.missed_tasks + stats.on_time_tasks = stats.total_tasks

\* A run ended with one task counted missed and one counted on time.
C4_Witness ==
    /\ pc = "exited"
    /\ stats.missed_tasks >= 1
    /\ stats.on_time_tasks >= 1
    /\ \E x \in 1..Len(rows) : rows[x].EndTime > rows[x].Deadline

\* ---------------------------------------------------------------- C5
EstRuntimeOf(id) ==
    IF "est_runtime" \in DOMAIN workload[id].payload
    THEN workload[id].payload.est_runtime
    ELSE Sec(1)

PrevCall(n) ==
    LET earlier == {m \in 1..(n - 1) : pool_log[m].fn = pool_log[n].fn}
    IN  IF earlier = {} THEN 0
        ELSE CHOOSE m \in earlier : \A m2 \in earlier : m2 <= m

\* C6: with reuse enabled, the first call on a function name returns the
\* cold-start delay, and a call at t2 that follows a call at t1 returns 0 when
\* t2 - t1 <= reuse_ttl and the cold-start delay otherwise, for every t1 >= 0.
C6_ReuseWithinTtl ==
    cfg.container_reuse =>
        \A n \in 1..Len(pool_log) :
            pool_log[n].delay =
                (IF PrevCall(n) = 0 THEN cold_start(cfg)
                 ELSE IF pool_log[n].t - pool_log[PrevCall(n)].t <= Sec(cfg.reuse_ttl)
                      THEN 0
                      ELSE cold_start(cfg))

\* ---------------------------------------------------------------- C7
ScenarioA ==
    /\ Len(input) = 2
    /\ input[1].arrival_time = input[2].arrival_time
    /\ input[1].payload = input[2].payload
    /\ {input[1].deadline, input[2].deadline} = {Sec(5), Sec(10)}

\* C7: two tasks arriving together with deadlines 10 and 5 and the same
\* runtime: the task with deadline 5 gets the smaller start_time, whichever
\* comes first in the workload, in the deadline-aware ServerlessSimulator and in
\* the batch engine.
C7_DeadlineFirst ==
    ScenarioA =>
        /\ \A x, y \in 1..Len(results) :
              (results[x].deadline = Sec(5) /\ results[y].deadline = Sec(10))
                  => results[x].start_time < results[y].start_time
        /\ \A x, y \in 1..Len(rows) :
              (rows[x].Deadline = Sec(5) /\ rows[y].Deadline = Sec(10))
                  => rows[x].StartTime < rows[y].StartTime

\* ---------------------------------------------------------------- C8
\* C8: the rows reach the sink in arrival-time order (ties in workload order)
\* over the whole run.
C8_RowsInArrivalOrder ==
    \A x, y \in 1..Len(rows) :
        x < y => Precedes(rows[x].TaskID, rows[y].TaskID)

\* ---------------------------------------------------------------- C9
\* C9: with max_tasks = k, 0 <= k < total, the run processes exactly k tasks
\* (k rows, total_tasks = k), warns of the truncation exactly once and exits 0.
C9_Truncation ==
    (pc = "exited" /\ cfg.max_tasks # None /\ cfg.max_tasks[1] < Len(input))
        => /\ Len(rows) = cfg.max_tasks[1]
           /\ stats.total_tasks = cfg.max_tasks[1]
           /\ warned = 1
           /\ exit_code = Some(0)

\* ---------------------------------------------------------------- C10
\* C10: with the cost model disabled every task's cost is 0 and the accumulated
\* total cost stays 0.
C10_CostDisabled ==
    ~cfg.enable_cost_model =>
        /\ cost_total = 0
        /\ \A k \in DOMAIN fut : fut[k].st = "finished" => fut[k].cost = 0

\* A run with the cost model disabled ended having processed two tasks of
\* different execution times.
C10_Witness ==
    /\ ~cfg.enable_cost_model
    /\ pc = "exited"
    /\ \E x, y \in 1..Len(rows) : rows[x].ExecDuration < rows[y].ExecDuration

\* ---------------------------------------------------------------- C12
\* C12: a dequeue (pop_next) on an empty queue returns None and leaves the queue
\* as it was: still empty, the insertion counter unchanged, however many times
\* it is repeated.  (A step that is neither a peek_all nor an insertion is a
\* dequeue.)
C12_DequeueEmpty ==
    [][(heap = <<>> /\ peeked' = None /\ Len(heap') # Len(heap) + 1) =>
         /\ ret' = None
         /\ heap' = <<>>
         /\ counter' = counter]_vars

\* A queue that held tasks was drained and then dequeued once more.
C12_Witness ==
    /\ heap = <<>>
    /\ counter >= 2
    /\ ret = None
    /\ peeked = None

\* ---------------------------------------------------------------- C13
\* The tasks successive dequeue calls return on heap h.
RECURSIVE DequeueOrder(_)
DequeueOrder(h) ==
    IF h = <<>> THEN <<>>
    ELSE <<heappop(h)[2].task>> \o DequeueOrder(heappop(h)[1])

\* C13: peek_all returns the queued tasks in the order successive dequeues
\* would return them and leaves the heap, its length and the insertion counter
\* as they were.
C13_PeekAll ==
    [][peeked' # None =>
         /\ peeked'[1] = DequeueOrder(heap)
         /\ heap' = heap
         /\ counter' = counter]_vars

\* peek_all returned three or more tasks in an order that is not the order the
\* heap list stores them in.
C13_Witness ==
    /\ peeked # None
    /\ Len(peeked[1]) >= 3
    /\ Len(heap) = Len(peeked[1])
    /\ \E k \in 1..Len(heap) : heap[k].task # peeked[1][k]

\* ---------------------------------------------------------------- C11
\* metadata.memory_mb of a task, 256 when absent.
MemoryOf(task) == Get(task.metadata, "memory_mb", 256)

\* The cost the pricing formula gives, in the units of _compute_cost.
PricedCost(task) == MemoryOf(task) * task.execution_time * 1667 + 204800

\* The futures that hold a result (task, end_time, cost).
Returned == {k \in DOMAIN fut : "cost" \in DOMAIN fut[k]}

\* C11: with the cost model enabled a task's cost is (memory_mb / 1024) *
\* exec_duration * price + overhead on the task's own metadata.memory_mb (256
\* only when absent); it is >= 0, and two tasks of equal exec_duration and
\* different memory_mb get different costs.
C11_CostByMemory ==
    cfg.enable_cost_model =>
        /\ \A k \in Returned :
              fut[k].cost = PricedCost(tasks[k]) /\ fut[k].cost >= 0
        /\ \A k, m \in Returned :
              (/\ tasks[k].execution_time = tasks[m].execution_time
               /\ MemoryOf(tasks[k]) # MemoryOf(tasks[m]))
                  => fut[k].cost # fut[m].cost

\* ---------------------------------------------------------------- C14
\* Scenario B: one task, arrival 0, deadline 2, est_runtime 5, run under the
\* default configuration.
ScenarioB ==
    /\ cfg = DefaultCfg
    /\ Len(input) = 1
    /\ input[1].arrival_time = 0
    /\ input[1].deadline = Sec(2)
    /\ input[1].payload = [est_runtime |-> Sec(5)]

\* C14: Scenario B ends with one row, end_time = 5 and status "missed".
C14_ScenarioB ==
    (ScenarioB /\ pc = "exited") =>
        /\ Len(rows) = 1
        /\ rows[1].EndTime = Sec(5)
        /\ rows[1].DeadlineStatus = "missed"

\* C14 as amended: Scenario B ends with one row, start_time = 0.1 (the cold
\* start of the first invocation), end_time = 5.1 and status "missed".
C14_ScenarioBColdStart ==
    (ScenarioB /\ pc = "exited") =>
        /\ Len(rows) = 1
        /\ rows[1].StartTime = 1
        /\ rows[1].EndTime = 51
        /\ rows[1].DeadlineStatus = "missed"
        /\ stats = [total_tasks |-> 1, missed_tasks |-> 1, on_time_tasks |-> 0]

\* Scenario B was run to its end.
C14_Witness ==
    /\ ScenarioB
    /\ pc = "exited"
    /\ Len(rows) = 1
    /\ rows[1].EndTime > rows[1].Deadline

\* ---------------------------------------------------------------- C15
\* C15: with container reuse disabled every _get_container_delay call returns
\* the cold-start delay, whatever the function name, the time and the calls made
\* before, and the container cache stays as it was: no record is ever created.
C15_ReuseDisabled ==
    ~cfg.container_reuse =>
        /\ \A n \in 1..Len(pool_log) : pool_log[n].delay = cold_start(cfg)
        /\ container_cache = <<>>

\* With reuse disabled, a function was called again within the ttl of an
\* earlier call made at a time other than 0 (reuse would have made it warm).
C15_Witness ==
    /\ ~cfg.container_reuse
    /\ \E n \in 1..Len(pool_log) :
         /\ PrevCall(n) # 0
         /\ pool_log[PrevCall(n)].t > 0
         /\ pool_log[n].t >= pool_log[PrevCall(n)].t
         /\ pool_log[n].t - pool_log[PrevCall(n)].t <= Sec(cfg.reuse_ttl)

\* ---------------------------------------------------------------- C16
\* A workload record is malformed: it lacks a field that has no default.
Malformed(record) == ~(RequiredFields \subseteq DOMAIN record)

\* C16: main's exit code is 1 whenever a workload record is malformed and 0
\* exactly when the run completed on well-formed input.
C16_ExitCode ==
    pc = "exited" =>
        exit_code = Some(IF \E k \in DOMAIN input : Malformed(input[k]) THEN 1 ELSE 0)

\* ---------------------------------------------------------------- C17
InvalidConfiguration == cfg.batch_size < 0 \/ cfg.reuse_ttl < 0

\* C17: under a negative batch size or a negative reuse ttl no simulation
\* starts: no batch is submitted, no row is written, the metrics and the
\* container cache stay untouched, and the run ends with a non-zero exit code.
C17_FailFast ==
    InvalidConfiguration =>
        /\ pc \in {"start", "loop", "exited"}
        /\ rows = <<>>
        /\ stats = ZeroStats
        /\ trigger_stats = <<>>
        /\ cost_total = 0
        /\ container_cache = <<>>
        /\ pc = "exited" => (exit_code # None /\ exit_code # Some(0))

\* ---------------------------------------------------------------- C18
\* C18: a malformed record never produces a result row (every row bears the
\* id of a well-formed record), and it changes neither the shared clock nor
\* the container cache: a workload of malformed records only leaves both as
\* they were.
C18_MalformedExcluded ==
    /\ \A x \in 1..Len(rows) :
         /\ "TaskID" \in DOMAIN rows[x]
         /\ ~Malformed(input[rows[x].TaskID])
    /\ (\A k \in DOMAIN input : Malformed(input[k])) =>
         /\ current_time = 0
         /\ container_cache = <<>>

\* ---------------------------------------------------------------- C19
\* Two _get_container_delay calls made one after the other on a cache:
\* <<the first delay, the second delay, the cache left>>.
Serial(cache, fn1, t1, fn2, t2) ==
    LET first == _get_container_delay(cfg, cache, fn1, t1)
        second == _get_container_delay(cfg, first[2], fn2, t2)
    IN  <<first[1], second[1], second[2]>>

\* C19: with concurrency >= 2, when the two tasks of the first batch have both
\* been through _get_container_delay for the same function name, the delays
\* they got and the record left behind are those of one of the two serial
\* orders of the calls.
C19_PoolSerialized ==
    (/\ cfg.concurrency >= 2
     /\ i = 0
     /\ Len(fut) = 2
     /\ fut[1].st = "written"
     /\ fut[2].st = "written"
     /\ FunctionKey(tasks[1]) = FunctionKey(tasks[2]))
        => LET fn == FunctionKey(tasks[1])
               t1 == fut[1].start_time
               t2 == fut[2].start_time
           IN  \/ <<fut[1].cold_delay, fut[2].cold_delay, container_cache>>
                    = Serial(<<>>, fn, t1, fn, t2)
               \/ <<fut[2].cold_delay, fut[1].cold_delay, container_cache>>
                    = Serial(<<>>, fn, t2, fn, t1)

\* ---------------------------------------------------------------- C20
\* What a run gives each task: (id, start_time, end_time, deadline_status).
PerTask(rs) ==
    {<<rs[x].TaskID, rs[x].StartTime, rs[x].EndTime, rs[x].DeadlineStatus>>
       : x \in 1..Len(rs)}

\* C20: a run under another batch size >= 1, on the same workload (sorted by
\* arrival_time or not) and otherwise the same configuration, gives every task
\* the same start_time, end_time and deadline_status and ends with the same
\* aggregate metrics.
C20_BatchSizeIrrelevant ==
    (first_run # None /\ pc = "exited") =>
        /\ PerTask(rows) = PerTask(first_run[1].rows)
        /\ stats = first_run[1].stats
        /\ trigger_stats = first_run[1].trigger_stats
        /\ cost_total = first_run[1].cost_total

\* ---- simulate() called twice on one simulator instance
NextSameInstance == Next \/ SimulateAgain

SpecSameInstance == InitTwice /\ [][NextSameInstance]_vars

\* ---- the batch engine under fair scheduling: the main thread and the worker
\* threads are operating-system threads, none of which is held back forever
\* while it has a step to take.
FairShapes ==
    [arrival_time : {0, Sec(1)}, deadline : {Sec(5)}, function_name : {"f"},
     payload : {[est_runtime |-> Sec(3)]}]

InitFair ==
    /\ QueueInit
    /\ PoolInit
    /\ CustomInit
    /\ \E c \in MainCfgs, wl \in Workloads(FairShapes) : EngineInit(c, wl)

SpecFair == InitFair /\ [][Next]_vars /\ WF_vars(Next)

\* ---- the batch engine interrupted from the keyboard
NextInterrupt == Next \/ Interrupt

SpecInterrupt == Init /\ [][NextInterrupt]_vars

\* ---- the batch engine on workloads long enough for the periodic flush
MaxRows == 101

LongWorkloads ==
    {[k \in 1..n |-> [id |-> k, arrival_time |-> 0, deadline |-> Sec(5),
                      function_name |-> "f", payload |-> <<>>]]
       : n \in (MaxRows - 2)..MaxRows}

\* Batches of one task: the rows are written in the order of the workload.
LongCfgs ==
    {[DefaultCfg EXCEPT !.batch_size = 1, !.container_reuse = r] : r \in BOOLEAN}

InitFlush ==
    /\ QueueInit
    /\ PoolInit
    /\ CustomInit
    /\ \E c \in LongCfgs, wl \in LongWorkloads : EngineInit(c, wl)

SpecFlush == InitFlush /\ [][Next]_vars

\* ---- the batch engine over records of several trigger types
TriggerShapes ==
    [arrival_time : {0}, deadline : {Sec(1), Sec(5)}, function_name : {"f"},
     metadata : {<<>>, [trigger |-> "http"], [trigger |-> "timer"]}]

InitTriggers ==
    /\ QueueInit
    /\ PoolInit
    /\ CustomInit
    /\ \E c \in BatchCfgs, wl \in Workloads(TriggerShapes) : EngineInit(c, wl)

SpecTriggers == InitTriggers /\ [][Next]_vars

\* ---------------------------------------------------------------- C21
RowIds == {rows[x].TaskID : x \in 1..Len(rows)}

\* C21: no record has two rows, every row is the row of a record of the
\* (truncated) workload, and a run that ends has one row for each of them; the
\* simulation fields of a task, once written, are not written again, and a
\* future that has finished is not run again.
C21_ExactlyOnce ==
    /\ [](/\ Cardinality(RowIds) = Len(rows)
          /\ RowIds \subseteq 1..Len(workload)
          /\ pc = "exited" => RowIds = 1..Len(workload))
    /\ [][\A j \in DOMAIN tasks \cap DOMAIN tasks' :
            /\ "start_time" \in DOMAIN tasks[j] => tasks'[j] = tasks[j]
            /\ fut[j].st \in {"finished", "yielded"}
                 => fut'[j].st \in {"finished", "yielded"}]_vars

\* A run in two batches, truncated to two records or not at all, ended with a
\* row for each record.
C21_Witness ==
    /\ pc = "exited"
    /\ cfg.batch_size = 1
    /\ cfg.concurrency = 2
    /\ Len(rows) = 2
    /\ RowIds = {1, 2}

\* ---------------------------------------------------------------- C22
RECURSIVE SumCounts(_, _)
SumCounts(ts, keys) ==
    IF keys = {} THEN 0
    ELSE LET k == CHOOSE x \in keys : TRUE
         IN  ts[k].count + SumCounts(ts, keys \ {k})

RowsOf(trig) == {x \in 1..Len(rows) : rows[x].TriggerType = trig}

\* C22: in every state total_tasks = on_time_tasks + missed_tasks = the number
\* of rows written; for every trigger type missed <= count, count and missed
\* are the numbers of rows and of missed rows of that type, and the counts sum
\* to total_tasks; the counters change only in the step of the main thread
\* that takes one future off as_completed, by one task each time.
C22_MetricsConsistent ==
    /\ [](/\ stats.total_tasks = stats.on_time_tasks + stats.missed_tasks
          /\ stats.total_tasks = Len(rows)
          /\ \A trig \in DOMAIN trigger_stats :
                /\ trigger_stats[trig].missed <= trigger_stats[trig].count
                /\ trigger_stats[trig].count = Cardinality(RowsOf(trig))
                /\ trigger_stats[trig].missed =
                     Cardinality({x \in RowsOf(trig) : rows[x].DeadlineStatus = "missed"})
          /\ \A x \in 1..Len(rows) : rows[x].TriggerType \in DOMAIN trigger_stats
          /\ SumCounts(trigger_stats, DOMAIN trigger_stats) = stats.total_tasks)
    /\ [][stats' # stats \/ trigger_stats' # trigger_stats
            => /\ stats'.total_tasks = stats.total_tasks + 1
               /\ Len(rows') = Len(rows) + 1
               /\ Cardinality({k \in DOMAIN fut : fut[k].st = "finished"
                                                  /\ fut'[k].st = "yielded"}) = 1
               /\ \A k \in DOMAIN fut :
                     fut[k].st # "finished" => fut'[k] = fut[k]]_vars

\* Two tasks of different trigger types ran at the same time, one missed its
\* deadline and one did not, and both are counted.
C22_Witness ==
    /\ cfg.concurrency = 2
    /\ stats.total_tasks = 2
    /\ DOMAIN trigger_stats = {"http", "Unknown"}
    /\ trigger_stats["http"] = [count |-> 1, missed |-> 1]
    /\ trigger_stats["Unknown"] = [count |-> 1, missed |-> 0]

\* ---------------------------------------------------------------- C23
\* C23: a second call of simulate() on the same instance starts from zeroed
\* counters, zero total cost and an empty container cache, and the metrics it
\* ends with are those of a single run on the workload.
C23_ResetPerRun ==
    first_run # None =>
        /\ pc = "start" =>
              /\ stats = ZeroStats
              /\ trigger_stats = <<>>
              /\ cost_total = 0
              /\ container_cache = <<>>
        /\ pc = "exited" /\ exit_code = Some(0) =>
              /\ stats.total_tasks = Len(workload)
              /\ cost_total = first_run[1].cost_total

\* ---------------------------------------------------------------- C24
\* C24: with reuse enabled, a call _get_container_delay(fn, t) leaves the
\* record of fn equal to t whatever delay it returns, leaves the records of
\* the other function names as they were, and removes no record.
C24_RecordRefreshed ==
    [][cfg.container_reuse /\ Len(pool_log') = Len(pool_log) + 1 =>
          LET call == pool_log'[Len(pool_log')]
          IN  /\ DOMAIN container_cache' = DOMAIN container_cache \cup {call.fn}
              /\ container_cache'[call.fn] = call.t
              /\ \A g \in DOMAIN container_cache \ {call.fn} :
                    container_cache'[g] = container_cache[g]]_vars

\* A warm call on f, at a later time than the call before it on f, made while
\* g has a record too.
C24_Witness ==
    /\ cfg.container_reuse
    /\ Len(pool_log) = 3
    /\ pool_log[3].fn = "f"
    /\ pool_log[3].delay = 0
    /\ PrevCall(3) # 0
    /\ pool_log[3].t > pool_log[PrevCall(3)].t
    /\ container_cache["f"] = pool_log[3].t
    /\ "g" \in DOMAIN container_cache

InFlight == {k \in DOMAIN fut : fut[k].st \notin {"queued", "finished", "yielded"}}

\* C29: at every moment at most cfg.concurrency calls of execute_task are in
\* flight.
C29_BoundedConcurrency == Cardinality(InFlight) <= cfg.concurrency

\* With concurrency 1 a call is in flight while another submitted task waits
\* for the worker.
C29_Witness ==
    /\ cfg.concurrency = 1
    /\ Cardinality(InFlight) = 1
    /\ \E k \in DOMAIN fut : fut[k].st = "queued"

C27_InterruptFlushes ==
    raised = Some("KeyboardInterrupt") /\ pc = "exited" =>
        /\ exit_code = Some(1)
        /\ sink # "open"
        /\ rows # <<>> => sink = "closed"
        /\ flushed = Len(rows)
        /\ flushed = rows_written

\* A run of two tasks was interrupted after its first row and has exited.
C27_Witness ==
    /\ raised = Some("KeyboardInterrupt")
    /\ pc = "exited"
    /\ Len(workload) = 2
    /\ Len(rows) = 1
    /\ flushed = 1

\* ---------------------------------------------------------------- C28
\* C28: rows_written is the number of rows handed to the sink, and every step
\* that writes a row is a step of the main thread's as_completed loop: it
\* writes one row, for the one future it takes, and no worker moves in it.
C28_WritesSerialized ==
    /\ [](rows_written = Len(rows))
    /\ [][rows' # rows \/ rows_written' # rows_written =>
            \/ pc = "exited"
            \/ /\ pc = "yielding"
               /\ rows_written' = rows_written + 1
               /\ Len(rows') = Len(rows) + 1
               /\ SubSeq(rows', 1, Len(rows)) = rows
               /\ Cardinality({k \in DOMAIN fut : fut'[k] # fut[k]}) = 1
               /\ \A k \in DOMAIN fut :
                     fut'[k] # fut[k] => fut[k].st = "finished"]_vars

\* With two workers, a row has been written while a call of execute_task is in
\* flight.
C28_Witness ==
    /\ cfg.concurrency = 2
    /\ rows_written = 1
    /\ InFlight # {}

\* ---------------------------------------------------------------- C25
\* C25: every row the live path logs has the status "missed" exactly when its
\* end_time is later than its deadline.
C25_LiveStatusAtEnd ==
    \A x \in 1..Len(perf_log) :
        perf_log[x].DeadlineStatus =
            (IF perf_log[x].EndTime > perf_log[x].Deadline THEN "missed"
             ELSE "on-time")

\* ---------------------------------------------------------------- C34
\* C34: every call changes len(queue) by the enqueue it makes less the task it
\* returns, so that len(queue) is the number of enqueues less the number of
\* dequeues that returned a task; is_empty() holds exactly when that is 0; the
\* counter is the number of enqueues, rises by one with each and never falls;
\* the queued entries bear distinct sequence numbers below the counter.
C34_Bookkeeping ==
    /\ [](/\ is_empty <=> len = 0
          /\ len <= counter
          /\ \A p \in 1..Len(heap) : heap[p].cnt < counter
          /\ \A p, q \in 1..Len(heap) : heap[p].cnt = heap[q].cnt => p = q)
    /\ [][/\ counter' \in {counter, counter + 1}
          /\ len' = len + (counter' - counter)
                         - (IF ret' # None THEN 1 ELSE 0)
          /\ counter' = counter + 1 =>
                \E p \in 1..Len(heap') : heap'[p].cnt = counter]_vars

\* Three enqueues and two dequeues that returned a task: one task is queued.
C34_Witness ==
    /\ counter = 3
    /\ len = 1
    /\ ~is_empty
    /\ ret # None

\* ---------------------------------------------------------------- C37
\* The futures the as_completed loop has taken so far in the current batch.
Yielded == {k \in DOMAIN fut : fut[k].st = "yielded"}

\* C37: the clock never decreases; the step that takes future j sets it to the
\* maximum of its value and j's end_time and no other step changes it, so when
\* simulate_batch returns it is the maximum of the value passed in and the
\* end_time of every task of the batch, whatever the order of completion.
C37_ClockMonotone ==
    /\ [](\A k \in Yielded :
             ("end_time" \in DOMAIN tasks[k]) => (current_time >= tasks[k].end_time))
    /\ [][/\ current_time' >= current_time
          /\ \A j \in DOMAIN fut \cap DOMAIN fut' :
                (fut[j].st = "finished" /\ fut'[j].st = "yielded"
                   /\ "end_time" \in DOMAIN fut[j])
                => current_time' = Max(current_time, fut[j].end_time)
          /\ (\A j \in DOMAIN fut \cap DOMAIN fut' :
                 ~(fut[j].st = "finished" /\ fut'[j].st = "yielded"))
                => current_time' = current_time]_vars

\* The loop took a future whose end_time is earlier than the clock, left by a
\* future taken before it: the clock kept the later time.
C37_Witness ==
    /\ Len(rows) = 2
    /\ Yielded = {1, 2}
    /\ rows[2].EndTime < rows[1].EndTime
    /\ current_time = rows[1].EndTime

\* ---------------------------------------------------------------- C38
\* C38: with max_tasks = k < total the records processed are exactly the first
\* k records of the input, in input order, whatever their arrival times.
C38_FirstRecords ==
    (pc = "exited" /\ cfg.max_tasks # None /\ cfg.max_tasks[1] < Len(input))
        => /\ workload = SubSeq(input, 1, cfg.max_tasks[1])
           /\ RowIds = 1..cfg.max_tasks[1]
           /\ \A x \in 1..Len(rows) :
                 rows[x].EnqueueTime = input[rows[x].TaskID].arrival_time

\* ---------------------------------------------------------------- C39
\* C39: at most 99 rows written are not yet flushed, the flush taking place
\* with every 100th row; the file is opened once, before the first batch, and
\* once closed it is not opened again in the run; a closed sink has every row
\* flushed.
C39_Flushing ==
    /\ [](/\ flushed <= rows_written
          /\ rows_written - flushed <= 99
          /\ sink = "open" => flushed = 100 * (rows_written \div 100)
          /\ sink = "closed" => flushed = rows_written
          /\ sink = "none" => rows_written = 0)
    /\ [][/\ (sink' = "open" /\ sink # "open") => (pc = "start" /\ sink = "none")
          /\ sink = "closed" => sink' = "closed"
          /\ rows_written' # rows_written => (sink = "open" /\ sink' = "open")]_vars

\* The 100th row has just been written and flushed, the sink still open.
C39_Witness ==
    /\ sink = "open"
    /\ rows_written = 100
    /\ flushed = 100
    /\ Len(workload) > 100

\* ---------------------------------------------------------------- C31
\* C31: with concurrency 1 and a cold-start delay of 0, the engine gives every
\* task of an arrival-sorted workload the start_time, end_time, queue_time and
\* deadline_status that ServerlessSimulator.simulate gives it.
C31_SameAsSequential ==
    (pc = "exited" /\ c_pc = "done") =>
        /\ Len(rows) = Len(results)
        /\ \A x \in 1..Len(rows) : \E y \in 1..Len(results) :
              /\ results[y].id = rows[x].TaskID
              /\ results[y].start_time = rows[x].StartTime
              /\ results[y].end_time = rows[x].EndTime
              /\ results[y].queue_time = rows[x].WaitTime
              /\ results[y].deadline_status = rows[x].DeadlineStatus

C33_SameQueue ==
    /\ [](Len(heap) = Len(pending_tasks))
    /\ [][counter' = counter =>
            IF heap = <<>>
            THEN ret' = None /\ popped' = None
            ELSE /\ ret' # None
                 /\ popped' # None
                 /\ ret'[1].name = popped'[1].id
                 /\ ret'[1].deadline = popped'[1].deadline
                 /\ ret'[1].est_runtime = popped'[1].payload.est_runtime]_vars

\* Both returned the task added second, ahead of the task added first, and
\* still hold the task added third, which has the same deadline and est_runtime
\* as the one returned.
C33_Witness ==
    /\ ret # None
    /\ popped # None
    /\ ret[1].name = 1
    /\ popped[1].id = 1
    /\ Len(pending_tasks) = 2
    /\ \E k \in 1..2 :
          /\ pending_tasks[k].id = 2
          /\ PendingKey(pending_tasks[k]) = PendingKey(popped[1])
    /\ \E k \in 1..2 : pending_tasks[k].id = 0

\* ---------------------------------------------------------------- C35
Queued == {heap[k].task.name : k \in 1..Len(heap)}

RunningNow == IF runner.pc = "running" THEN {runner.task[1].name} ELSE {}

FinishedTasks == {perf_log[k].TaskName : k \in 1..Len(perf_log)}

\* C35: with requests and the runner on their own threads, the submitted tasks
\* are at all times exactly those queued, running or finished, each in one
\* place and once.
C35_NeverLost ==
    /\ submitted = Queued \cup RunningNow \cup FinishedTasks
    /\ Queued \cap RunningNow = {}
    /\ Queued \cap FinishedTasks = {}
    /\ RunningNow \cap FinishedTasks = {}
    /\ Cardinality(Queued) = Len(heap)
    /\ Cardinality(FinishedTasks) = Len(perf_log)

\* ---------------------------------------------------------------- C36
\* C36: once submissions have stopped, every submitted task is eventually run
\* and the queue becomes and stays empty.
C36_Drains == <>[](heap = <<>> /\ req = [th \in Threads |-> "idle"] /\ submitted = FinishedTasks)

====
